---- MODULE Spec2Model ----
\* Model of the Are.na search front-end: the result accumulation cache
\* (src/src/arena-cache.ts) and the search driver that uses it
\* (performSearch in src/unnamed/part_002).
EXTENDS Integers, Sequences, FiniteSets, TLC

\* ------------------------------------------------------------------ bounds
MaxNow == 3          \* the clock runs over 1..MaxNow, in ticks of TickMs
MaxPage == 2         \* page numbers submitted to addPage
MaxRandom == 1       \* number of Math.random() draws in one behaviour

\* ------------------------------------------------------- program constants
CACHE_KEY_PREFIX == "arena_search_v2_"

\* ----------------------------------------------------------------- strings
\* A search URL is a record: an optional "www." prefix as typed, the rest of
\* the host (and path), and the number of trailing slashes.
ToLowerCase(s) ==
  CASE s = "WWW." -> "www."
    [] s = "A.com" -> "a.com"
    [] OTHER -> s

MkUrl(w, h, s) == [www |-> w, host |-> h, slashes |-> s]

\* mutant: the "www." is kept
NormalizeSearchUrlKeepsWww(url) ==
  [www |-> ToLowerCase(url.www),
   host |-> ToLowerCase(url.host),
   slashes |-> IF url.slashes > 0 THEN url.slashes - 1 ELSE 0]

\* url.toLowerCase().replace(/^www\./, '').replace(/\/$/, '')
NormalizeSearchUrl(url) ==
  LET lw == ToLowerCase(url.www)
  IN  [www |-> IF lw = "www." THEN "" ELSE lw,
       host |-> ToLowerCase(url.host),
       slashes |-> IF url.slashes > 0 THEN url.slashes - 1 ELSE 0]

UrlA == MkUrl("", "a.com", 0)
UrlB == MkUrl("", "b.com", 0)
UrlC == MkUrl("", "c.com", 0)
UrlWwwA == MkUrl("WWW.", "A.com", 1)

SearchUrls ==
  { UrlA, UrlWwwA, UrlB, UrlC }

CacheKey(url) == [prefix |-> CACHE_KEY_PREFIX, name |-> NormalizeSearchUrl(url)]

CacheKeys == { CacheKey(u) : u \in SearchUrls }

StorageKeys == CacheKeys

\* ------------------------------------------------------------------- items
\* An href is "" (absent), "/blocks/<digits>" or some other path.
NoHref == [path |-> "", digits |-> ""]
BlockHref(d) == [path |-> "blocks", digits |-> d]

MkItem(tn, id, slug, href, title) ==
  [id |-> id, slug |-> slug, href |-> href, title |-> title, typename |-> tn]

LinkOneA == MkItem("Link", "1", "", BlockHref("1"), "first")
LinkOneB == MkItem("Link", "1", "", BlockHref("1"), "second")
ImageTwo == MkItem("Image", "2", "", BlockHref("2"), "img")
Pending  == MkItem("PendingBlock", "", "", NoHref, "")
ChannelA == MkItem("Channel", "7", "chan", NoHref, "ch")

Items == { LinkOneA, LinkOneB, ImageTwo, Pending, ChannelA }

\* href.match(/\/blocks\/(\d+)/) ; '' when there is no match
extractBlockId(href) ==
  IF href.path = "blocks" /\ href.digits # "" THEN href.digits ELSE ""

\* `${a || b}` for the optional id / slug fields ("" is absent)
OrElse(a, b) == IF a # "" THEN a ELSE b

\* Math.random() rendered as a string; the k-th draw of a behaviour
RandomString(k) == "0." \o ToString(k)

NeedsRandom(result) ==
  /\ result.typename # "Channel"
  /\ extractBlockId(result.href) = ""
  /\ result.id = ""

\* the identity under which addPageToCache files a result; r is the value
\* Math.random() returns if it is called
BlockIdOf(result, r) ==
  IF result.typename = "Channel"
  THEN [prefix |-> "channel",
        val |-> OrElse(OrElse(result.id, result.slug), "undefined")]
  ELSE IF extractBlockId(result.href) # ""
       THEN [prefix |-> "", val |-> extractBlockId(result.href)]
       ELSE [prefix |-> result.typename, val |-> OrElse(result.id, r)]

CachedBlock(blockId, result) ==
  [id |-> blockId, href |-> result.href, title |-> result.title,
   typename |-> result.typename, raw |-> result]

Null == [kind |-> "null"]

\* --------------------------------------------------------------- JS Map
\* A Map is a function from its keys to their values (the iteration order of
\* the entries is not modelled: the cache never reads it).
EmptyMap == [k \in {} |-> Null]
MapKeys(m) == DOMAIN m
MapHas(m, k) == k \in DOMAIN m
MapGet(m, k) == m[k]
MapSet(m, k, v) == [x \in (DOMAIN m) \cup {k} |-> IF x = k THEN v ELSE m[x]]
MapSize(m) == Cardinality(DOMAIN m)
\* Array.from(map.entries()) and new Map(entries)
MapEntries(m) == { <<k, m[k]>> : k \in DOMAIN m }
MapFromEntries(entries) ==
  [k \in { e[1] : e \in entries } |-> (CHOOSE e \in entries : e[1] = k)[2]]
MapValues(m) == { m[k] : k \in DOMAIN m }

\* ------------------------------------------------------------ JS numbers
\* undefined and NaN, which arithmetic on a malformed stored record yields,
\* and the null that JSON.stringify writes for NaN
Undefined == -1
NaN == -2
JsonNull == -3

\* Math.max: NaN when an argument is undefined or NaN; null counts as 0
MathMax(a, b) ==
  IF a \in {Undefined, NaN} \/ b \in {Undefined, NaN} THEN NaN
  ELSE LET x == IF a = JsonNull THEN 0 ELSE a
           y == IF b = JsonNull THEN 0 ELSE b
       IN IF x > y THEN x ELSE y

\* JSON.stringify of a number field
JsonNumber(x) == IF x = NaN THEN JsonNull ELSE x

\* Math.ceil(n / 2)
CeilHalf(n) == (n + 1) \div 2

\* ---------------------------------------------------------- stored values
Absent    == [kind |-> "absent"]      \* getItem returns null
Garbage   == [kind |-> "garbage"]     \* not JSON: JSON.parse throws
BadBlocks == [kind |-> "badblocks"]   \* '{"blocks":5}': new Map(5) throws
EmptyObj  == [kind |-> "emptyobj"]    \* '{}': parses, every field undefined

UndefinedUrl == MkUrl("", "undefined", 0)

\* mutant: toStore without the entries of the blocks
SerializeNoBlocks(cache) ==
  [url |-> cache.url, kind |-> "stored",
   totalFromAPI |-> JsonNumber(cache.totalFromAPI),
   lastPage |-> JsonNumber(cache.lastPage),
   perPage |-> JsonNumber(cache.perPage),
   blocks |-> {},
   timestamp |-> JsonNumber(cache.timestamp)]

\* JSON.stringify(toStore), toStore built at lines 133-140
Serialize(cache) ==
  [url |-> cache.url, kind |-> "stored",
   totalFromAPI |-> JsonNumber(cache.totalFromAPI),
   lastPage |-> JsonNumber(cache.lastPage),
   perPage |-> JsonNumber(cache.perPage),
   blocks |-> MapEntries(cache.blocks),
   timestamp |-> JsonNumber(cache.timestamp)]

\* JSON.parse(stored) followed by { ...parsed, blocks: new Map(parsed.blocks) }
Deserialize(stored) ==
  IF stored.kind = "emptyobj"
  THEN [url |-> UndefinedUrl, kind |-> "cache", totalFromAPI |-> Undefined,
        lastPage |-> Undefined, perPage |-> Undefined, blocks |-> EmptyMap,
        timestamp |-> Undefined]
  ELSE [url |-> stored.url, kind |-> "cache",
        totalFromAPI |-> stored.totalFromAPI, lastPage |-> stored.lastPage,
        perPage |-> stored.perPage, blocks |-> MapFromEntries(stored.blocks),
        timestamp |-> stored.timestamp]

\* does reading the stored value throw inside getSearchCache's try block
ReadThrows(stored) == stored.kind \in {"garbage", "badblocks"}

getSearchCache(st, url) ==
  LET stored == st[CacheKey(url)]
  IN  IF stored.kind = "absent" THEN Null
      ELSE IF ReadThrows(stored) THEN Null
      ELSE Deserialize(stored)

\* the for-loop of addPageToCache over apiResponse.results, from index i on;
\* rnd counts the Math.random() draws made so far
\* mutants of the loop: one that overwrites an entry already cached, one that
\* stops before the last result
RECURSIVE MergeResultsOverwrite(_, _, _, _)
MergeResultsOverwrite(blocks, results, i, rnd) ==
  IF i > Len(results) THEN [blocks |-> blocks, rnd |-> rnd]
  ELSE LET result == results[i]
           rnd2 == IF NeedsRandom(result) THEN rnd + 1 ELSE rnd
           blockId == BlockIdOf(result, RandomString(rnd2))
       IN MergeResultsOverwrite(MapSet(blocks, blockId, CachedBlock(blockId, result)),
                                results, i + 1, rnd2)
RECURSIVE MergeResultsOffByOne(_, _, _, _)
MergeResultsOffByOne(blocks, results, i, rnd) ==
  IF i >= Len(results) THEN [blocks |-> blocks, rnd |-> rnd]
  ELSE LET result == results[i]
           rnd2 == IF NeedsRandom(result) THEN rnd + 1 ELSE rnd
           blockId == BlockIdOf(result, RandomString(rnd2))
       IN IF MapHas(blocks, blockId)
          THEN MergeResultsOffByOne(blocks, results, i + 1, rnd2)
          ELSE MergeResultsOffByOne(MapSet(blocks, blockId, CachedBlock(blockId, result)),
                                    results, i + 1, rnd2)

RECURSIVE MergeResults(_, _, _, _)
MergeResults(blocks, results, i, rnd) ==
  IF i > Len(results) THEN [blocks |-> blocks, rnd |-> rnd]
  ELSE LET result == results[i]
           draws == NeedsRandom(result)
           rnd2 == IF draws THEN rnd + 1 ELSE rnd
           blockId == BlockIdOf(result, RandomString(rnd2))
       IN IF MapHas(blocks, blockId)
          THEN MergeResults(blocks, results, i + 1, rnd2)
          ELSE MergeResults(MapSet(blocks, blockId, CachedBlock(blockId, result)),
                            results, i + 1, rnd2)

\* localStorage.removeItem
RemoveItem(st, key) == [st EXCEPT ![key] = Absent]

\* pruneOldestCaches, first loop: keys is localStorage's key order, i the
\* loop index; removing an entry shifts the later keys down by one
IsCacheKey(key) == key.prefix = CACHE_KEY_PREFIX
PruneParseThrows(stored) == stored.kind = "garbage"
PruneTimestamp(stored) ==
  IF stored.kind = "stored" /\ stored.timestamp > 0 THEN stored.timestamp ELSE 0
RemoveAt(seq, i) == SubSeq(seq, 1, i - 1) \o SubSeq(seq, i + 1, Len(seq))
RECURSIVE PruneScan(_, _, _, _)
PruneScan(st, keys, i, cacheKeys) ==
  IF i > Len(keys) THEN [cacheKeys |-> cacheKeys, storage |-> st]
  ELSE LET key == keys[i]
       IN IF ~IsCacheKey(key) THEN PruneScan(st, keys, i + 1, cacheKeys)
          ELSE IF PruneParseThrows(st[key])
               THEN PruneScan(RemoveItem(st, key), RemoveAt(keys, i), i + 1, cacheKeys)
               ELSE PruneScan(st, keys, i + 1,
                      Append(cacheKeys,
                             [timestamp |-> PruneTimestamp(st[key]), key |-> key]))

\* cacheKeys.sort((a, b) => a.timestamp - b.timestamp): a stable sort
RECURSIVE InsertSorted(_, _)
InsertSorted(sorted, e) ==
  IF sorted = <<>> THEN <<e>>
  ELSE IF Head(sorted).timestamp <= e.timestamp
       THEN <<Head(sorted)>> \o InsertSorted(Tail(sorted), e)
       ELSE <<e>> \o sorted
RECURSIVE SortByTimestamp(_)
SortByTimestamp(cacheKeys) ==
  IF cacheKeys = <<>> THEN <<>>
  ELSE InsertSorted(SortByTimestamp(SubSeq(cacheKeys, 1, Len(cacheKeys) - 1)),
                    cacheKeys[Len(cacheKeys)])

RECURSIVE RemoveFirst(_, _, _)
RemoveFirst(st, sorted, n) ==
  IF n = 0 THEN st
  ELSE RemoveFirst(RemoveItem(st, Head(sorted).key), Tail(sorted), n - 1)

pruneOldestCaches(st, keys) ==
  LET scan == PruneScan(st, keys, 1, <<>>)
      sorted == SortByTimestamp(scan.cacheKeys)
  IN  RemoveFirst(scan.storage, sorted, CeilHalf(Len(sorted)))

\* the keys of the auth-token setting ('arena_auth_token', written by
\* saveToken) and of an entry in the old cache format
AuthTokenKey == [prefix |-> "arena_", name |-> MkUrl("", "auth_token", 0)]
OldFormatKey == [prefix |-> "arena_search_cache_", name |-> MkUrl("", "a.com", 0)]

\* mutant: the migration removes every key of the page
migrateOldCacheAllKeys(st, keys) ==
  [k \in DOMAIN st |->
     IF (\E i \in 1..Len(keys) : keys[i] = k) THEN Absent ELSE st[k]]

\* migrateOldCache: the keys are collected first and removed afterwards
migrateOldCache(st, keys) ==
  [k \in DOMAIN st |->
     IF /\ \E i \in 1..Len(keys) : keys[i] = k
        /\ k.prefix = "arena_search_cache_"
        /\ ~IsCacheKey(k)
     THEN Absent ELSE st[k]]

\* the keys localStorage currently holds, and the orders key(i) may use: the
\* order is the user agent's; two are modelled, one the reverse of the other
PresentKeys(st) == { k \in DOMAIN st : st[k].kind # "absent" }
RECURSIVE Filter(_, _)
Filter(seq, S) ==
  IF seq = <<>> THEN <<>>
  ELSE IF Head(seq) \in S THEN <<Head(seq)>> \o Filter(Tail(seq), S)
       ELSE Filter(Tail(seq), S)
Reverse(seq) == [i \in 1..Len(seq) |-> seq[Len(seq) + 1 - i]]
KeyOrders(st) ==
  LET all == <<CacheKey(UrlA), CacheKey(UrlB), CacheKey(UrlC)>>
  IN  { Filter(all, PresentKeys(st)), Filter(Reverse(all), PresentKeys(st)) }

\* mutant: the retry's failure is not caught
StoreWithRetryUncaught(st, key, value, ok1, ok2, keys) ==
  IF ok1 THEN [storage |-> [st EXCEPT ![key] = value], raised |-> FALSE]
  ELSE LET pruned == pruneOldestCaches(st, keys)
       IN [storage |-> IF ok2 THEN [pruned EXCEPT ![key] = value] ELSE pruned,
           raised |-> ~ok2]

\* lines 142-152: setItem, and on failure prune and one retry whose failure
\* is caught; ok1 and ok2 say whether the first and the second setItem fit
\* the quota
StoreWithRetry(st, key, value, ok1, ok2, keys) ==
  IF ok1 THEN [storage |-> [st EXCEPT ![key] = value], raised |-> FALSE]
  ELSE LET pruned == pruneOldestCaches(st, keys)
       IN [storage |-> IF ok2 THEN [pruned EXCEPT ![key] = value] ELSE pruned,
           raised |-> FALSE]

\* mutant: the submitted page overwrites lastPage
NextLastPageOverwrite(lastPage, page) == page

\* line 129: cache.lastPage = Math.max(cache.lastPage, page)
NextLastPage(lastPage, page) == MathMax(lastPage, page)

addPageToCache(st, url, page, perPage, apiResponse, t, rnd, ok1, ok2, keys) ==
  LET normalizedUrl == NormalizeSearchUrl(url)
      key == CacheKey(url)
      existing == getSearchCache(st, url)
      cache0 == IF existing = Null
                THEN [url |-> normalizedUrl, kind |-> "cache",
                      totalFromAPI |-> apiResponse.total, lastPage |-> 0,
                      perPage |-> perPage, blocks |-> EmptyMap, timestamp |-> t]
                ELSE existing
      merged == MergeResults(cache0.blocks, apiResponse.results, 1, rnd)
      cache == [cache0 EXCEPT !.totalFromAPI = apiResponse.total,
                              !.blocks = merged.blocks,
                              !.lastPage = NextLastPage(cache0.lastPage, page),
                              !.timestamp = t]
      stored == StoreWithRetry(st, key, Serialize(cache), ok1, ok2, keys)
  IN  [cache |-> cache, rnd |-> merged.rnd, storage |-> stored.storage,
       raised |-> stored.raised]

\* getCachedBlocks: the raw payloads of the cached blocks
getCachedBlocks(st, url) ==
  LET cache == getSearchCache(st, url)
  IN  IF cache = Null THEN {} ELSE { block.raw : block \in MapValues(cache.blocks) }

hasMorePages(cache) == MapSize(cache.blocks) < cache.totalFromAPI

\* mutant: localStorage.clear()
clearSearchCacheEverything(st, url) == [k \in DOMAIN st |-> Absent]

clearSearchCache(st, url) == RemoveItem(st, CacheKey(url))

\* ------------------------------------------------------------------ state
VARIABLES
  storage,   \* localStorage: key -> stored value
  now,       \* Date.now(), in ticks
  rnd,       \* number of Math.random() draws made
  last,      \* the last call of the cache API and how its writes went
  urlInput,           \* urlInput.value
  currentSearchUrl,   \* the page's active search term
  currentSearchCache, \* the page's cache object, or null
  isLoadingMore,
  inflight,           \* the performSearch calls waiting on their fetch
  dom                 \* what the page shows

uiVars == <<urlInput, currentSearchUrl, currentSearchCache, isLoadingMore, inflight, dom>>
vars == <<storage, now, rnd, last, urlInput, currentSearchUrl, currentSearchCache,
          isLoadingMore, inflight, dom>>

Pages == 1..MaxPage
DefaultPerPage == 50

\* the pages the remote API may answer with
ApiResponses ==
  { [results |-> <<LinkOneA>>, total |-> 1],
    [results |-> <<LinkOneB, Pending>>, total |-> 3],
    [results |-> <<ChannelA, ImageTwo>>, total |-> 3] }

NumRandom(results) == Cardinality({ i \in 1..Len(results) : NeedsRandom(results[i]) })

NoCall == [op |-> "none"]

\* a cache an earlier session left in storage
OldCache(url, t) ==
  Serialize([url |-> NormalizeSearchUrl(url), kind |-> "cache", totalFromAPI |-> 3,
             lastPage |-> 1, perPage |-> DefaultPerPage,
             blocks |-> MapSet(EmptyMap, BlockIdOf(ImageTwo, ""),
                               CachedBlock(BlockIdOf(ImageTwo, ""), ImageTwo)),
             timestamp |-> t])

PageUrls == { UrlWwwA }

\* the page as it loads: no active term, nothing shown
EmptyUrl == MkUrl("", "", 0)
MkInput(scheme, url) == [url |-> url, scheme |-> scheme]
EmptyInput == MkInput("", EmptyUrl)
NoSummary == [url |-> EmptyUrl, total |-> 0, loaded |-> 0]
DomInit ==
  [resultsHidden |-> TRUE, loadMoreHidden |-> TRUE, loadMoreDisabled |-> FALSE,
   loading |-> FALSE, error |-> "", refreshBtn |-> FALSE, summary |-> NoSummary]
UiInit ==
  /\ urlInput = EmptyInput
  /\ currentSearchUrl = EmptyUrl
  /\ currentSearchCache = Null
  /\ isLoadingMore = FALSE
  /\ inflight = <<>>
  /\ dom = DomInit

Init ==
  /\ \E a \in {Absent, Garbage, OldCache(UrlA, 1)},
        b \in {Absent, OldCache(UrlB, 2)},
        c \in {Absent, Garbage} :
       storage = [k \in StorageKeys |->
                    IF k = CacheKey(UrlA) THEN a ELSE IF k = CacheKey(UrlB) THEN b ELSE c]
  /\ now = 2
  /\ rnd = 0
  /\ last = NoCall
  /\ UiInit

\* a call addPageToCache(url, page, perPage, apiResponse)
AddPage(url, page, perPage, apiResponse, ok1, ok2, keys) ==
  /\ rnd + NumRandom(apiResponse.results) <= MaxRandom
  /\ LET r == addPageToCache(storage, url, page, perPage, apiResponse, now, rnd,
                             ok1, ok2, keys)
     IN /\ storage' = r.storage
        /\ rnd' = r.rnd
        /\ last' = [url |-> url, ok1 |-> ok1, ok2 |-> ok2,
                    page |-> page, op |-> "addPage"]
  /\ UNCHANGED now
  /\ UNCHANGED uiVars

\* a call getSearchCache(url)
Get(url) ==
  /\ last' = [url |-> url, op |-> "get",
              absent |-> getSearchCache(storage, url) = Null]
  /\ UNCHANGED <<storage, now, rnd>>
  /\ UNCHANGED uiVars

\* a call clearSearchCache(url)
Clear(url) ==
  /\ storage' = clearSearchCache(storage, url)
  /\ last' = [url |-> url, op |-> "clear"]
  /\ UNCHANGED <<now, rnd>>
  /\ UNCHANGED uiVars

\* time passes
Tick ==
  /\ now < MaxNow
  /\ now' = now + 1
  /\ UNCHANGED <<storage, rnd, last>>
  /\ UNCHANGED uiVars

AnyKeyOrder(st) == CHOOSE keys \in KeyOrders(st) : TRUE

AddPageStored ==
  \E url \in PageUrls, page \in Pages, apiResponse \in ApiResponses :
     AddPage(url, page, DefaultPerPage, apiResponse, TRUE, TRUE, AnyKeyOrder(storage))
AddPageQuota ==
  \E keys \in KeyOrders(storage), ok2 \in BOOLEAN :
    \E url \in PageUrls, page \in Pages, apiResponse \in ApiResponses :
       AddPage(url, page, DefaultPerPage, apiResponse, FALSE, ok2, keys)
GetStep == \E url \in {UrlA} : Get(url)
ClearStep == \E url \in {UrlA} : Clear(url)

Next == AddPageStored \/ AddPageQuota \/ GetStep \/ ClearStep \/ Tick

Spec == Init /\ [][Next]_vars

TypeOK == now \in 1..MaxNow /\ rnd \in 0..MaxRandom

\* ------------------------------------------------------------ the page
MaxInFlight == 1

\* what the user may have typed into the URL field
InputHttpsWwwA == MkInput("https://", MkUrl("www.", "a.com", 1))
InputB == MkInput("", UrlB)
Inputs == { EmptyInput, InputHttpsWwwA, InputB }

\* the search term of an input: scheme, a leading "www." and one trailing
\* slash are stripped
SearchTermOf(input) ==
  LET u == input.url
  IN [www |-> IF u.www = "www." THEN "" ELSE u.www,
      host |-> u.host,
      slashes |-> IF u.slashes > 0 THEN u.slashes - 1 ELSE 0]

FreshnessMs == 5 * 60 * 1000
\* Date.now() - timestamp; a tick of the clock is half the freshness window
CacheAgeMs(t, timestamp) == (t - timestamp) * (FreshnessMs \div 2)

showLoadingMore(d, show) == [d EXCEPT !.loadMoreDisabled = show]
showLoading(d, show) == [d EXCEPT !.loading = show]
showError(d, message) == [d EXCEPT !.error = message]
hideError(d) == [d EXCEPT !.error = ""]
hideResults(d) == [d EXCEPT !.resultsHidden = TRUE]

updateLoadMoreState(d, cache) ==
  IF cache # Null /\ hasMorePages(cache)
  THEN [d EXCEPT !.loadMoreHidden = FALSE]
  ELSE [d EXCEPT !.loadMoreHidden = TRUE]

\* showResults(url, {total, results}) with currentSearchCache = cache
showResults(d, cache, url, total, results) ==
  updateLoadMoreState(
    [d EXCEPT !.resultsHidden = FALSE,
              !.refreshBtn = (cache # Null),
              !.summary = [url |-> url, total |-> total, loaded |-> Cardinality(results)]],
    cache)

\* the results of url are on the page
Shows(d, url) == ~d.resultsHidden /\ d.summary.url = url

MkFetch(url, page, loadMore, forceRefresh) ==
  [url |-> url, page |-> page, loadMore |-> loadMore, forceRefresh |-> forceRefresh]

\* performSearch(options) up to its await of the fetch, with at most limit
\* fetches outstanding
performSearchUpTo(loadMore, forceRefresh, limit) ==
  IF urlInput = EmptyInput
  THEN /\ dom' = showError(dom, "Please enter a URL to search for")
       /\ UNCHANGED <<storage, now, rnd, last, urlInput, currentSearchUrl,
                      currentSearchCache, isLoadingMore, inflight>>
  ELSE
    LET url == SearchTermOf(urlInput)
        isNewSearch == url # currentSearchUrl \/ forceRefresh
        existingCache == getSearchCache(storage, url)
        showCached == isNewSearch /\ existingCache # Null /\ ~forceRefresh
        cache1 == IF ~isNewSearch THEN currentSearchCache
                  ELSE IF showCached THEN existingCache ELSE Null
        dom1 == IF showCached
                THEN showResults(dom, cache1, url, existingCache.totalFromAPI,
                                 getCachedBlocks(storage, url))
                ELSE dom
        recent == showCached /\ CacheAgeMs(now, existingCache.timestamp) < FreshnessMs
        pageToFetch == IF loadMore /\ cache1 # Null THEN cache1.lastPage + 1 ELSE 1
        dom2 == IF loadMore THEN showLoadingMore(dom1, TRUE)
                ELSE IF cache1 = Null
                     THEN hideResults(hideError(showLoading(dom1, TRUE)))
                     ELSE dom1
    IN /\ currentSearchUrl' = url
       /\ currentSearchCache' = cache1
       /\ IF recent
          THEN /\ dom' = dom1
               /\ UNCHANGED <<inflight, isLoadingMore>>
          ELSE /\ pageToFetch <= MaxPage
               /\ Len(inflight) < limit
               /\ dom' = dom2
               /\ isLoadingMore' = (loadMore \/ isLoadingMore)
               /\ inflight' = Append(inflight, MkFetch(url, pageToFetch, loadMore, forceRefresh))
       /\ UNCHANGED <<storage, now, rnd, last, urlInput>>

performSearch(loadMore, forceRefresh) ==
  performSearchUpTo(loadMore, forceRefresh, MaxInFlight)

\* the user edits the URL field
Type(input) ==
  /\ input # urlInput
  /\ input # EmptyInput
  /\ urlInput' = input
  /\ UNCHANGED <<storage, now, rnd, last, currentSearchUrl, currentSearchCache,
                 isLoadingMore, inflight, dom>>

\* click on the search button, Enter in the URL field or in the page field,
\* or a change of the subdomains checkbox: performSearch()
Search == performSearch(FALSE, FALSE)

\* click on the load-more button; the handler does nothing unless its
\* condition holds
LoadMoreClick ==
  /\ ~dom.loadMoreHidden
  /\ ~dom.loadMoreDisabled
  /\ ~isLoadingMore /\ currentSearchCache # Null /\ hasMorePages(currentSearchCache)
  /\ performSearch(TRUE, FALSE)

\* click on the refresh button of the summary
RefreshClick ==
  /\ dom.refreshBtn
  /\ ~dom.resultsHidden
  /\ performSearch(FALSE, TRUE)

\* mutant: the finally block leaves the load-more button as it is
FinallyKeepsLoadMore(d, f) == showLoading(d, FALSE)

\* the finally block of performSearch
Finally(d, f) ==
  IF f.loadMore THEN showLoadingMore(showLoading(d, FALSE), FALSE)
  ELSE showLoading(d, FALSE)

\* the fetch of inflight[i] resolves with apiResponse
FetchResolve(i, apiResponse, ok1, ok2, keys) ==
  LET f == inflight[i]
      r == addPageToCache(storage, f.url, f.page, DefaultPerPage, apiResponse, now, rnd,
                          ok1, ok2, keys)
      allBlocks == getCachedBlocks(r.storage, f.url)
  IN /\ rnd + NumRandom(apiResponse.results) <= MaxRandom
     /\ storage' = r.storage
     /\ rnd' = r.rnd
     /\ IF r.raised
        THEN /\ dom' = Finally(showError(dom, "Error"), f)
             /\ UNCHANGED currentSearchCache
        ELSE /\ currentSearchCache' = r.cache
             /\ dom' = Finally(showResults(dom, r.cache, f.url, r.cache.totalFromAPI,
                                           allBlocks), f)
     /\ isLoadingMore' = IF f.loadMore THEN FALSE ELSE isLoadingMore
     /\ inflight' = RemoveAt(inflight, i)
     /\ UNCHANGED <<now, last, urlInput, currentSearchUrl>>

\* A message is the sequence of its pieces; a piece is text that the needles
\* '429' and 'rate limit' either are or do not occur in.
includes(message, needle) == \E i \in 1..Len(message) : message[i] = needle

\* `Arena API error: ${res.status} - ${errorText}`
ArenaApiError(status, errorText) == <<"Arena API error: ", status, " - ">> \o errorText

\* the message of the error a failed fetch throws: a response that is not ok,
\* with its body, or the transport's own error
FetchErrors ==
  { ArenaApiError("429", <<>>), ArenaApiError("500", <<>>),
    ArenaApiError("500", <<"request 1", "429", "0 failed">>),
    ArenaApiError("503", <<"rate limit", " exceeded">>),
    <<"Failed to fetch">> }
IsRateLimit(message) == includes(message, "rate limit") \/ includes(message, "429")

\* the fetch of inflight[i] fails
FetchFail(i, message) ==
  LET f == inflight[i]
  IN /\ dom' = Finally(showError(dom, IF IsRateLimit(message) THEN "Rate limited!"
                                      ELSE "Error"), f)
     /\ isLoadingMore' = IF f.loadMore THEN FALSE ELSE isLoadingMore
     /\ inflight' = RemoveAt(inflight, i)
     /\ UNCHANGED <<storage, now, rnd, last, urlInput, currentSearchUrl,
                    currentSearchCache>>

\* the pages the remote API answers the page's fetches with
PageResponses ==
  { [results |-> <<LinkOneA>>, total |-> 2],
    [results |-> <<ImageTwo>>, total |-> 2] }

TypeStep == \E input \in Inputs : Type(input)
FetchResolveStored ==
  \E i \in 1..Len(inflight), apiResponse \in PageResponses :
       FetchResolve(i, apiResponse, TRUE, TRUE, AnyKeyOrder(storage))
FetchResolveQuota ==
  \E i \in 1..Len(inflight), apiResponse \in PageResponses,
     ok2 \in BOOLEAN, keys \in KeyOrders(storage) :
       FetchResolve(i, apiResponse, FALSE, ok2, keys)
FetchFailStep == \E i \in 1..Len(inflight), message \in FetchErrors : FetchFail(i, message)

\* a session of the page over a storage earlier sessions may have filled
InitPage ==
  /\ storage = [k \in StorageKeys |->
                  IF k = CacheKey(UrlA) THEN OldCache(UrlA, 0) ELSE Absent]
  /\ now = 2
  /\ rnd = 0
  /\ last = NoCall
  /\ UiInit

NextPage ==
  \/ TypeStep
  \/ Search
  \/ LoadMoreClick
  \/ RefreshClick
  \/ FetchResolveStored
  \/ FetchResolveQuota
  \/ FetchFailStep
  \/ Tick

SpecPage == InitPage /\ [][NextPage]_vars

\* ------------------------------------------------- overlapping searches
\* the page with one term typed in and events that do not wait for the
\* outstanding fetch
MaxOverlap == 2

SearchAgain == performSearchUpTo(FALSE, FALSE, MaxOverlap)

LoadMoreAgain ==
  /\ ~dom.loadMoreHidden
  /\ ~dom.loadMoreDisabled
  /\ ~isLoadingMore /\ currentSearchCache # Null /\ hasMorePages(currentSearchCache)
  /\ performSearchUpTo(TRUE, FALSE, MaxOverlap)

RefreshAgain ==
  /\ dom.refreshBtn
  /\ ~dom.resultsHidden
  /\ performSearchUpTo(FALSE, TRUE, MaxOverlap)

InitOverlap ==
  /\ storage = [k \in StorageKeys |-> Absent]
  /\ now = 2
  /\ rnd = 0
  /\ last = NoCall
  /\ urlInput = InputB
  /\ currentSearchUrl = EmptyUrl
  /\ currentSearchCache = Null
  /\ isLoadingMore = FALSE
  /\ inflight = <<>>
  /\ dom = DomInit

NextOverlap ==
  \/ SearchAgain
  \/ LoadMoreAgain
  \/ RefreshAgain
  \/ FetchResolveStored
  \/ FetchFailStep
  \/ Tick

SpecOverlap == InitOverlap /\ [][NextOverlap]_vars

\* --------------------------------------------------------- the renderer
\* The strings the renderer works on. A URL string is an optional scheme, an
\* optional "www.", the labels of the host, the segments of the path, an
\* optional trailing slash and an optional query; the other strings are
\* "channel:<id>", "<typename>:<id>" and "".
MkSource(scheme, www, host, path, slash, query) ==
  [www |-> www, host |-> host, path |-> path, kind |-> "url", scheme |-> scheme,
   slash |-> slash, query |-> query]
Bare(host, path) == MkSource("", "", host, path, FALSE, "")
ChannelKey(id) == [id |-> id, kind |-> "channel"]
TypedKey(typename, id) == [id |-> id, typename |-> typename, kind |-> "typed"]
EmptyString == [kind |-> "empty"]

\* labels that begin with "http", labels no host may hold, and ids that are
\* digits only
HttpLabels == { "httpbin" }
InvalidLabels == { "exa mple" }
DigitIds == { "1", "2", "7", "42" }

\* s.startsWith('http')
StartsWithHttp(s) ==
  /\ s.kind = "url"
  /\ \/ s.scheme # ""
     \/ s.www = "" /\ s.host # <<>> /\ s.host[1] \in HttpLabels

\* new URL(s.startsWith('http') ? s : `http://${s}`) throws
NewUrlThrows(s) ==
  CASE s.kind = "empty" -> TRUE
    [] s.kind = "url" ->
         \/ s.scheme = "" /\ StartsWithHttp(s)
         \/ s.host = <<>>
         \/ \E i \in 1..Len(s.host) : s.host[i] \in InvalidLabels
    [] s.kind = "channel" -> s.id \notin DigitIds
    [] s.kind = "typed" -> s.id \notin DigitIds

\* the URL object: hostname (lower-cased), pathname and search
NewUrl(s) ==
  CASE s.kind = "url" ->
         [www |-> ToLowerCase(s.www),
          host |-> [i \in 1..Len(s.host) |-> ToLowerCase(s.host[i])],
          path |-> s.path, slash |-> s.slash /\ s.path # <<>>, search |-> s.query]
    [] s.kind = "channel" ->
         [www |-> "", host |-> <<"channel">>, path |-> <<>>, slash |-> FALSE,
          search |-> ""]
    [] s.kind = "typed" ->
         [www |-> "", host |-> <<ToLowerCase(s.typename)>>, path |-> <<>>,
          slash |-> FALSE, search |-> ""]

\* a, preceded by a dot, ends b
IsDotSuffix(a, b) ==
  /\ Len(a) < Len(b)
  /\ a = SubSeq(b, Len(b) - Len(a) + 1, Len(b))

\* searchTerm.replace(/^www\./, '').split('/')[0]
SearchHost(searchTerm) ==
  [www |-> IF searchTerm.www = "www." THEN "" ELSE searchTerm.www,
   host |-> searchTerm.host,
   rest |-> IF searchTerm.path = <<>> /\ ~searchTerm.slash THEN searchTerm.query ELSE ""]

classifyUrl(sourceKey, searchTerm) ==
  IF sourceKey.kind = "channel" THEN "channel"
  ELSE IF NewUrlThrows(sourceKey) THEN "other"
  ELSE LET url == NewUrl(sourceKey)
           hostname == [www |-> IF url.www = "www." THEN "" ELSE url.www,
                        host |-> url.host, rest |-> ""]
           searchHost == SearchHost(searchTerm)
       IN IF hostname = searchHost /\ url.path = <<>> THEN "exact"
          ELSE IF hostname = searchHost THEN "subpath"
          ELSE IF /\ searchHost.rest = ""
                  /\ searchHost.www = ""
                  /\ IsDotSuffix(searchHost.host, hostname.host)
               THEN "subdomain"
               ELSE "other"

Example == <<"example", "com">>
\* the search terms and the group keys of the renderer's calls
SearchTerms ==
  { Bare(Example, <<>>), Bare(Example, <<"blog">>),
    MkSource("", "www.", Example, <<>>, FALSE, ""), Bare(<<"httpbin", "org">>, <<>>) }
GroupKeys ==
  { Bare(Example, <<>>), Bare(Example, <<"blog">>), Bare(<<"sub">> \o Example, <<>>),
    MkSource("", "www.", Example, <<>>, FALSE, ""),
    MkSource("", "", Example, <<>>, FALSE, "?a=1"),
    Bare(<<"other", "com">>, <<>>), Bare(<<"exa mple", "com">>, <<>>),
    Bare(<<"httpbin", "org">>, <<"get">>),
    ChannelKey("42"), ChannelKey("chan"), TypedKey("Text", "0.1") }

\* a call classifyUrl(sourceKey, searchTerm)
ClassifyStep == \E sourceKey \in GroupKeys, searchTerm \in SearchTerms :
  /\ last = NoCall
  /\ last' = [result |-> classifyUrl(sourceKey, searchTerm), op |-> "classifyUrl",
              searchTerm |-> searchTerm, sourceKey |-> sourceKey]
  /\ UNCHANGED <<storage, now, rnd>>
  /\ UNCHANGED uiVars

\* a.key.localeCompare(b.key): the keys of the renderer's calls in collation
\* order (punctuation before digits before letters, case set aside)
LocaleOrder ==
  << ChannelKey("42"), ChannelKey("chan"), Bare(Example, <<>>),
     Bare(Example, <<"blog">>), Bare(<<"httpbin", "org">>, <<"get">>),
     Bare(<<"other", "com">>, <<>>), Bare(<<"sub">> \o Example, <<>>),
     TypedKey("Text", "0.1") >>
LocaleRank(key) == CHOOSE i \in 1..Len(LocaleOrder) : LocaleOrder[i] = key
localeCompare(a, b) == LocaleRank(a) - LocaleRank(b)

\* mutant: channels after subdomains
PriorityChannelLate(category) ==
  CASE category = "exact" -> 0
    [] category = "subpath" -> 1
    [] category = "channel" -> 3
    [] category = "subdomain" -> 2
    [] category = "other" -> 4

\* the priority table of sortGroupedResults
Priority(category) ==
  CASE category = "exact" -> 0
    [] category = "subpath" -> 1
    [] category = "channel" -> 2
    [] category = "subdomain" -> 3
    [] category = "other" -> 4

\* the comparator of classified.sort
CompareGroups(a, b) ==
  IF Priority(a.category) # Priority(b.category)
  THEN Priority(a.category) - Priority(b.category)
  ELSE localeCompare(a.key, b.key)

\* Array.prototype.sort, which is stable
RECURSIVE InsertGroup(_, _)
InsertGroup(sorted, e) ==
  IF sorted = <<>> THEN <<e>>
  ELSE IF CompareGroups(Head(sorted), e) <= 0
       THEN <<Head(sorted)>> \o InsertGroup(Tail(sorted), e)
       ELSE <<e>> \o sorted
RECURSIVE SortClassified(_)
SortClassified(classified) ==
  IF classified = <<>> THEN <<>>
  ELSE InsertGroup(SortClassified(SubSeq(classified, 1, Len(classified) - 1)),
                   classified[Len(classified)])

\* groups is Object.entries(groups): the entries in the object's key order
sortGroupedResults(groups, searchTerm) ==
  SortClassified([i \in 1..Len(groups) |->
                    [results |-> groups[i].results, key |-> groups[i].key,
                     category |-> classifyUrl(groups[i].key, searchTerm)]])

MaxGroups == 3
\* the results of a group: here one result, which names its source
ResultsOf(key) == << [source |-> key] >>
SortKeys ==
  { ChannelKey("42"), ChannelKey("chan"), Bare(Example, <<>>), Bare(Example, <<"blog">>),
    Bare(<<"other", "com">>, <<>>), Bare(<<"sub">> \o Example, <<>>) }
\* the group objects of up to MaxGroups keys, in every key order
GroupLists ==
  UNION { { [i \in 1..n |-> [results |-> ResultsOf(f[i]), key |-> f[i]]] :
              f \in { g \in [1..n -> SortKeys] :
                        \A i, j \in 1..n : i # j => g[i] # g[j] } } :
          n \in 1..MaxGroups }

\* a call sortGroupedResults(groups, searchTerm)
SortStep == \E groups \in GroupLists :
  LET searchTerm == Bare(Example, <<>>)
  IN /\ last = NoCall
     /\ last' = [result |-> sortGroupedResults(groups, searchTerm),
                 op |-> "sortGroupedResults", searchTerm |-> searchTerm, groups |-> groups]
     /\ UNCHANGED <<storage, now, rnd>>
     /\ UNCHANGED uiVars

\* ---- grouping
\* A result as the renderer reads it: source_url and source are the strings
\* result.source_url and result.source?.url, EmptyString when absent.
MkResult(tn, id, slug, href, source_url, source) ==
  [id |-> id, slug |-> slug, href |-> href, typename |-> tn,
   source |-> source, source_url |-> source_url]

\* labels whose first four characters /^www./ matches and removes whole
WwwLabels == { "www2" }

\* result.source_url || result.source?.url
SourceOf(result) ==
  IF result.source_url # EmptyString THEN result.source_url ELSE result.source

resolveResultUrl(result) ==
  IF result.typename = "Channel"
  THEN MkSource("https://", "", <<"are", "na">>,
                <<"channel", OrElse(OrElse(result.slug, result.id), "undefined")>>,
                FALSE, "")
  ELSE IF SourceOf(result) # EmptyString THEN SourceOf(result)
  ELSE IF result.href # NoHref
       THEN MkSource("https://", "", <<"are", "na">>,
                     IF result.href.digits = "" THEN <<result.href.path>>
                     ELSE <<result.href.path, result.href.digits>>,
                     FALSE, "")
       ELSE EmptyString

\* hostname.replace(/^www./, ''): the dot of the pattern matches any character
StripWwwAny(www, host) ==
  IF www = "www." THEN host
  ELSE IF host # <<>> /\ host[1] \in WwwLabels THEN <<"">> \o Tail(host)
  ELSE host

\* the catch branch of normalizeUrl
NormalizeFallback(url) ==
  [url EXCEPT !.www = IF ToLowerCase(url.www) = "www." THEN "" ELSE url.www,
              !.slash = url.slash /\ url.query # ""]

normalizeUrl(url) ==
  IF url = EmptyString THEN EmptyString
  ELSE IF NewUrlThrows(url) THEN NormalizeFallback(url)
  ELSE LET urlObj == NewUrl(url)
       IN Bare(StripWwwAny(urlObj.www, urlObj.host), urlObj.path)

\* mutant: every channel under one key
GroupKeyOfOneChannelGroup(result, r) ==
  IF result.typename = "Channel"
  THEN ChannelKey("undefined")
  ELSE LET key == normalizeUrl(resolveResultUrl(result))
       IN IF key # EmptyString THEN key
          ELSE TypedKey(result.typename, OrElse(result.id, r))

\* the key of one result; r is the value Math.random() returns if it is called
GroupKeyOf(result, r) ==
  IF result.typename = "Channel"
  THEN ChannelKey(OrElse(OrElse(result.id, result.slug), "undefined"))
  ELSE LET key == normalizeUrl(resolveResultUrl(result))
       IN IF key # EmptyString THEN key
          ELSE TypedKey(result.typename, OrElse(result.id, r))

\* groups[key].push(result): the groups in the order their keys were added
PushResult(groups, key, result) ==
  IF \E i \in 1..Len(groups) : groups[i].key = key
  THEN [i \in 1..Len(groups) |->
          IF groups[i].key = key
          THEN [groups[i] EXCEPT !.results = Append(@, result)]
          ELSE groups[i]]
  ELSE Append(groups, [results |-> <<result>>, key |-> key])

\* k draws of Math.random() precede the call
RECURSIVE groupResultsByUrl(_, _)
groupResultsByUrl(results, k) ==
  IF results = <<>> THEN <<>>
  ELSE LET n == Len(results)
           result == results[n]
       IN PushResult(groupResultsByUrl(SubSeq(results, 1, n - 1), k),
                     GroupKeyOf(result, RandomString(k + n)), result)

\* mutant: the href counts as source information
HasSourceOrHref(result) ==
  \/ result.typename = "Channel"
  \/ SourceOf(result) # EmptyString
  \/ result.href # NoHref

\* the filter of showResults
HasSource(result) ==
  \/ result.typename = "Channel"
  \/ SourceOf(result) # EmptyString

RECURSIVE filteredResults(_)
filteredResults(results) ==
  IF results = <<>> THEN <<>>
  ELSE IF HasSource(Head(results))
       THEN <<Head(results)>> \o filteredResults(Tail(results))
       ELSE filteredResults(Tail(results))

\* the groups showResults renders
groupedResults(results, k) == groupResultsByUrl(filteredResults(results), k)

\* results: two whose source URLs differ in the query string, one with an href
\* and no source URL, a channel, and in RenderItems one with nothing at all,
\* one with a nested source, one whose source URL does not parse and one on a
\* www2 host
QueryOne == MkResult("Link", "11", "", BlockHref("11"),
                     MkSource("https://", "", Example, <<"page">>, FALSE, "?a=1"),
                     EmptyString)
QueryTwo == MkResult("Link", "12", "", BlockHref("12"),
                     MkSource("https://", "", Example, <<"page">>, FALSE, "?a=2"),
                     EmptyString)
HrefOnly == MkResult("Link", "1", "", BlockHref("1"), EmptyString, EmptyString)
Chan == MkResult("Channel", "7", "chan", NoHref, EmptyString, EmptyString)
ChanSlug == MkResult("Channel", "", "art", NoHref, EmptyString, EmptyString)
RenderItems ==
  { QueryOne, QueryTwo, HrefOnly, Chan, ChanSlug,
    MkResult("Text", "", "", NoHref, EmptyString, EmptyString),
    MkResult("Image", "2", "", BlockHref("2"), EmptyString,
             MkSource("http://", "WWW.", Example, <<>>, TRUE, "")),
    MkResult("Link", "13", "", BlockHref("13"),
             MkSource("", "", <<"httpbin", "org">>, <<"get">>, FALSE, "?a=1"),
             EmptyString),
    MkResult("Link", "14", "", BlockHref("14"),
             Bare(<<"www2">> \o Example, <<>>), EmptyString) }

MaxResults == 2
ResultLists == UNION { [1..n -> RenderItems] : n \in 1..MaxResults }

\* a call groupResultsByUrl(results)
GroupStep == \E results \in ResultLists :
  /\ last = NoCall
  /\ last' = [result |-> groupResultsByUrl(results, rnd), results |-> results,
              op |-> "groupResultsByUrl"]
  /\ UNCHANGED <<storage, now, rnd>>
  /\ UNCHANGED uiVars

\* the filter and the grouping of a call showResults(url, {total, results}, options)
ShowGroupsStep == \E results \in ResultLists :
  /\ last = NoCall
  /\ last' = [result |-> groupedResults(results, rnd), results |-> results,
              op |-> "showResults"]
  /\ UNCHANGED <<storage, now, rnd>>
  /\ UNCHANGED uiVars

\* the renderer's functions called on their own; they keep no state, and a
\* behaviour is one call
InitRender ==
  /\ storage = [k \in StorageKeys |-> Absent]
  /\ now = 2
  /\ rnd = 0
  /\ last = NoCall
  /\ UiInit

NextRender ==
  \/ ClassifyStep
  \/ SortStep
  \/ GroupStep
  \/ ShowGroupsStep

SpecRender == InitRender /\ [][NextRender]_vars

\* ------------------------------------------------------- claim helpers
Max(a, b) == IF a > b THEN a ELSE b

\* addPageToCache applied to a storage whose writes succeed
AddStored(st, rn, url, page, apiResponse) ==
  addPageToCache(st, url, page, DefaultPerPage, apiResponse, now, rn, TRUE, TRUE, <<>>)

\* the identity the remote API gives an item (its payload apart)
SameItem(x, y) ==
  /\ x.typename = y.typename
  /\ x.id = y.id
  /\ x.slug = y.slug
  /\ x.href = y.href

NoSharedItem(rs1, rs2) ==
  \A i \in 1..Len(rs1), j \in 1..Len(rs2) : ~SameItem(rs1[i], rs2[j])

\* number of distinct items in a list of results
DistinctItems(rs) ==
  Cardinality({ [id |-> rs[i].id, slug |-> rs[i].slug, href |-> rs[i].href,
                 typename |-> rs[i].typename] : i \in 1..Len(rs) })

\* has the cache an entry that carries this result
Holds(cache, result) ==
  \E id \in MapKeys(cache.blocks) : SameItem(cache.blocks[id].raw, result)

StoredCacheOf(st, url) == st[CacheKey(url)]

\* ---------------------------------------------------------------- claims
\* C1: whatever page is merged into a cache, every entry the cache already
\* holds keeps its payload (first seen wins, nothing is overwritten), the
\* merged cache has exactly one entry per identity, and an item of the page
\* whose identity was not cached yet is filed under that identity.
C1_FirstSeenWins ==
  \A url \in PageUrls, page \in Pages, apiResponse \in ApiResponses :
    LET before == getSearchCache(storage, url)
        r == AddStored(storage, rnd, url, page, apiResponse)
        after == getSearchCache(r.storage, url)
    IN /\ after = r.cache
       /\ before # Null =>
            \A id \in MapKeys(before.blocks) :
               /\ MapHas(after.blocks, id)
               /\ after.blocks[id] = before.blocks[id]
       /\ \A id \in MapKeys(after.blocks) :
            /\ after.blocks[id].id = id
            /\ Cardinality({ e \in r.storage[CacheKey(url)].blocks : e[1] = id }) = 1

\* C1 witness: the stored cache holds LinkOneA, merged first, although the
\* page with LinkOneB (the one that brings a PendingBlock) was merged later
C1_Witness ==
  /\ last.op = "addPage"
  /\ LET cache == getSearchCache(storage, last.url)
     IN /\ cache # Null
        /\ MapHas(cache.blocks, [prefix |-> "", val |-> "1"])
        /\ cache.blocks[[prefix |-> "", val |-> "1"]].raw = LinkOneA
        /\ \E id \in MapKeys(cache.blocks) : cache.blocks[id].raw = Pending

\* C2 (as claimed): a second addPage with the arguments of the first leaves
\* the cache's blocks as the first call left them.
C2_Idempotent ==
  \A url \in PageUrls, page \in Pages, apiResponse \in ApiResponses :
    LET r1 == AddStored(storage, rnd, url, page, apiResponse)
        r2 == AddStored(r1.storage, r1.rnd, url, page, apiResponse)
    IN r2.cache.blocks = r1.cache.blocks

\* C3: from a URL without a cache, adding page 1 and then page 2, no item
\* being on both pages, leaves as many blocks as the two pages have distinct
\* items.
C3_MergeCompleteness ==
  \A url \in PageUrls :
    getSearchCache(storage, url) = Null =>
      \A p1, p2 \in ApiResponses :
        NoSharedItem(p1.results, p2.results) =>
          LET r1 == AddStored(storage, rnd, url, 1, p1)
              r2 == AddStored(r1.storage, r1.rnd, url, 2, p2)
          IN /\ MapSize(r2.cache.blocks) = DistinctItems(p1.results \o p2.results)
             /\ MapSize(r1.cache.blocks) = DistinctItems(p1.results)
             /\ getSearchCache(r2.storage, url) = r2.cache

\* C3 witness: pages 1 and 2 were added and the cache holds the three
\* distinct items of <<LinkOneA>> and <<ChannelA, ImageTwo>>
C3_Witness ==
  /\ last.op = "addPage"
  /\ last.page = 2
  /\ LET cache == getSearchCache(storage, last.url)
     IN /\ cache # Null
        /\ cache.lastPage = 2
        /\ MapSize(cache.blocks) = 3
        /\ { cache.blocks[id].raw : id \in MapKeys(cache.blocks) }
             = {LinkOneA, ChannelA, ImageTwo}

\* C4: lastPage after addPage is the larger of the lastPage read (0 when the
\* cache is created) and the submitted page; page 2 added before page 1 ends
\* with lastPage = 2 and the items of both pages.
C4_LastPageMax ==
  \A url \in PageUrls, apiResponse \in ApiResponses :
    LET before == getSearchCache(storage, url)
        prev == IF before = Null THEN 0 ELSE before.lastPage
    IN /\ \A page \in Pages, ok1, ok2 \in BOOLEAN :
            LET r == addPageToCache(storage, url, page, DefaultPerPage, apiResponse,
                                    now, rnd, ok1, ok2, AnyKeyOrder(storage))
            IN /\ r.cache.lastPage = Max(prev, page)
               /\ r.cache.lastPage >= prev
       /\ before = Null =>
            \A p1 \in ApiResponses :
              LET r2 == AddStored(storage, rnd, url, 2, apiResponse)
                  r1 == AddStored(r2.storage, r2.rnd, url, 1, p1)
              IN /\ r1.cache.lastPage = 2
                 /\ getSearchCache(r1.storage, url).lastPage = 2
                 /\ \A i \in 1..Len(apiResponse.results) : Holds(r1.cache, apiResponse.results[i])
                 /\ \A i \in 1..Len(p1.results) : Holds(r1.cache, p1.results[i])

\* C4 witness: page 1 was submitted to a cache whose lastPage is 2
C4_Witness ==
  /\ last.op = "addPage"
  /\ last.page = 1
  /\ LET cache == getSearchCache(storage, last.url)
     IN cache # Null /\ cache.lastPage = 2

\* C6: when the first setItem of addPage throws, nothing is raised to the
\* caller (whether the retry fits or not, whatever the key order), and the
\* cache returned holds the blocks read from storage unchanged, the items of
\* the new page and nothing else, the new total and the updated lastPage.
C6_QuotaFailureSwallowed ==
  \A url \in PageUrls, page \in Pages, apiResponse \in ApiResponses,
     ok2 \in BOOLEAN, keys \in KeyOrders(storage) :
    LET before == getSearchCache(storage, url)
        prev == IF before = Null THEN 0 ELSE before.lastPage
        old == IF before = Null THEN EmptyMap ELSE before.blocks
        results == apiResponse.results
        r == addPageToCache(storage, url, page, DefaultPerPage, apiResponse,
                            now, rnd, FALSE, ok2, keys)
    IN /\ ~r.raised
       /\ r.cache.kind = "cache"
       /\ \A id \in MapKeys(old) :
            MapHas(r.cache.blocks, id) /\ r.cache.blocks[id] = old[id]
       /\ \A i \in 1..Len(results) : Holds(r.cache, results[i])
       /\ \A id \in MapKeys(r.cache.blocks) :
            \/ MapHas(old, id)
            \/ \E i \in 1..Len(results) : r.cache.blocks[id].raw = results[i]
       /\ r.cache.totalFromAPI = apiResponse.total
       /\ r.cache.lastPage = Max(prev, page)
       /\ r.cache.timestamp = now

\* C6 witness: an addPage whose two writes both failed, so that nothing of
\* its URL is stored
C6_Witness ==
  /\ last.op = "addPage"
  /\ ~last.ok1
  /\ ~last.ok2
  /\ getSearchCache(storage, last.url) = Null

\* C7 (as claimed): the prune that follows a failed first write evicts the
\* least recently updated half of the stored search caches, those with the
\* oldest timestamps, and addPage then writes once more and does nothing else.
StoredCaches(st) == { k \in DOMAIN st : st[k].kind = "stored" }
C7_EvictsOldestHalf ==
  \A keys \in KeyOrders(storage) :
    LET pruned == pruneOldestCaches(storage, keys)
        valid == StoredCaches(storage)
        evicted == { k \in valid : pruned[k].kind = "absent" }
        n == Cardinality(valid)
    IN /\ Cardinality(evicted) \in { n \div 2, CeilHalf(n) }
       /\ n > 0 => evicted # {}
       /\ \A e \in evicted, k \in valid \ evicted :
            storage[e].timestamp <= storage[k].timestamp
       /\ \A url \in PageUrls, page \in Pages, apiResponse \in ApiResponses,
             ok2 \in BOOLEAN :
            LET r == addPageToCache(storage, url, page, DefaultPerPage, apiResponse,
                                    now, rnd, FALSE, ok2, keys)
            IN r.storage = IF ok2
                           THEN [pruned EXCEPT ![CacheKey(url)] = Serialize(r.cache)]
                           ELSE pruned

\* C8 (as claimed): for a stored value that is missing, unparseable or
\* malformed, get returns absent and addPage returns and stores the cache it
\* would create were the entry missing.
Unreadable(stored) == stored.kind \in {"absent", "garbage", "badblocks", "emptyobj"}
C8_GetFailsSoft ==
  \A url \in PageUrls :
    Unreadable(storage[CacheKey(url)]) =>
      /\ getSearchCache(storage, url) = Null
      /\ \A page \in Pages, apiResponse \in ApiResponses :
           LET r == AddStored(storage, rnd, url, page, apiResponse)
               fresh == AddStored(RemoveItem(storage, CacheKey(url)), rnd, url, page,
                                  apiResponse)
           IN /\ r.cache = fresh.cache
              /\ r.storage[CacheKey(url)] = Serialize(fresh.cache)

\* storage as an earlier version of the page, or another script of the
\* origin, may have left it: a value under the cache prefix that is not a
\* serialized cache
InitCorrupt ==
  /\ \E a \in {Absent, Garbage, BadBlocks, EmptyObj},
        b \in {Absent, OldCache(UrlB, 2)} :
       storage = [k \in StorageKeys |->
                    IF k = CacheKey(UrlA) THEN a ELSE IF k = CacheKey(UrlB) THEN b
                    ELSE Absent]
  /\ now = 2
  /\ rnd = 0
  /\ last = NoCall
  /\ UiInit

SpecCorrupt == InitCorrupt /\ [][Next]_vars

\* C5 (as claimed): hasMore of a cache is true exactly when it holds fewer
\* distinct blocks than the last known remote total, and the load-more
\* control is on offer (visible and enabled, with the results showing) only
\* while the page has a cache and hasMore of it is true.
LoadMoreOffered == ~dom.resultsHidden /\ ~dom.loadMoreHidden /\ ~dom.loadMoreDisabled
C5_LoadMoreWhileHasMore ==
  /\ \A url \in {UrlA, UrlB} :
       LET cache == getSearchCache(storage, url)
       IN cache # Null =>
            (hasMorePages(cache) <=>
               Cardinality(getCachedBlocks(storage, url)) < cache.totalFromAPI)
  /\ LoadMoreOffered =>
       currentSearchCache # Null /\ hasMorePages(currentSearchCache)

\* C9 (as claimed): when the fetch of a forced refresh of a term with a stored
\* cache resolves, the cache after the merge has lastPage 1 and holds only the
\* items of the fetched page.
C9_RefreshReplaces ==
  [][\A i \in 1..Len(inflight), apiResponse \in PageResponses :
       ( /\ FetchResolve(i, apiResponse, TRUE, TRUE, AnyKeyOrder(storage))
         /\ inflight[i].forceRefresh
         /\ getSearchCache(storage, inflight[i].url) # Null )
       => LET cache == getSearchCache(storage', inflight[i].url)
              results == apiResponse.results
          IN /\ cache # Null
             /\ cache = currentSearchCache'
             /\ cache.lastPage = 1
             /\ \A id \in MapKeys(cache.blocks) :
                  \E j \in 1..Len(results) : cache.blocks[id].raw = results[j]
             /\ \A j \in 1..Len(results) : Holds(cache, results[j])]_vars

\* C10 (as claimed): every search without forced refresh for a term that has
\* a stored cache shows the cached results before any fetch, dispatches no
\* fetch while the cache is fresh (younger than the freshness threshold; an
\* age equal to the threshold is let pass), and a fetch it dispatches is of
\* page 1.
C10_StaleWhileRevalidate ==
  [][( /\ Search
       /\ urlInput # EmptyInput
       /\ getSearchCache(storage, SearchTermOf(urlInput)) # Null )
     => LET url == SearchTermOf(urlInput)
            cache == getSearchCache(storage, url)
        IN /\ Shows(dom', url)
           /\ dom'.summary.loaded = Cardinality(getCachedBlocks(storage, url))
           /\ inflight' # inflight =>
                /\ CacheAgeMs(now, cache.timestamp) >= FreshnessMs
                /\ inflight' = Append(inflight, MkFetch(url, 1, FALSE, FALSE))]_vars

\* C11 (as claimed): when a fetch resolves that was issued for a term other
\* than the active one, its results are not displayed and the page's cache
\* object is left as it is.
C11_StaleResultsDiscarded ==
  [][\A i \in 1..Len(inflight), apiResponse \in PageResponses :
       ( /\ FetchResolve(i, apiResponse, TRUE, TRUE, AnyKeyOrder(storage))
         /\ inflight[i].url # currentSearchUrl )
       => /\ currentSearchCache' = currentSearchCache
          /\ dom'.summary = dom.summary
          /\ dom'.resultsHidden = dom.resultsHidden]_vars

\* C12 (as claimed): no two outstanding fetches are for the same search term.
C12_OneFetchPerTerm ==
  \A i, j \in 1..Len(inflight) : i # j => inflight[i].url # inflight[j].url

\* C13 (as claimed): a fetch that fails leaves every stored entry and what is
\* displayed as they are, and a search, load-more or refresh for a term whose
\* cached results are on display leaves them on display while it waits for
\* its fetch, so that they are still displayed after the failure.
C13_FetchFailureKeepsCache ==
  [][/\ \A i \in 1..Len(inflight), message \in FetchErrors :
          FetchFail(i, message) =>
            /\ storage' = storage
            /\ dom'.resultsHidden = dom.resultsHidden
            /\ dom'.summary = dom.summary
     /\ ( /\ Search \/ LoadMoreClick \/ RefreshClick
          /\ urlInput # EmptyInput
          /\ getSearchCache(storage, SearchTermOf(urlInput)) # Null
          /\ Shows(dom, SearchTermOf(urlInput)) )
        => Shows(dom', SearchTermOf(urlInput))]_vars

\* C14 (as claimed): when a fetch resolves and storage rejects both writes of
\* addPage, the results of the fetch's term are displayed and every item the
\* fetch returned is among them.
C14_StorageFailureNotFatal ==
  [][\A i \in 1..Len(inflight), apiResponse \in PageResponses,
        keys \in KeyOrders(storage) :
       FetchResolve(i, apiResponse, FALSE, FALSE, keys)
       => /\ Shows(dom', inflight[i].url)
          /\ dom'.summary.loaded >= DistinctItems(apiResponse.results)]_vars

\* C15 (as claimed): the identity of an item does not depend on the draw of
\* Math.random() made when it is computed, and an item fetched on page 1 and
\* again on page 2 is filed once.
C15_IdentityPure ==
  \A item \in Items :
    /\ \A k1, k2 \in 1..(MaxRandom + 1) :
         BlockIdOf(item, RandomString(k1)) = BlockIdOf(item, RandomString(k2))
    /\ \A url \in PageUrls :
         LET page == [results |-> <<item>>, total |-> 1]
             r1 == AddStored(storage, rnd, url, 1, page)
             r2 == AddStored(r1.storage, r1.rnd, url, 2, page)
         IN MapKeys(r2.cache.blocks) = MapKeys(r1.cache.blocks)

\* C16 (as claimed): of two successive addPage calls for the same URL, the
\* first of which may hit a quota failure, the second returns a cache whose
\* block ids include those of the cache the first returned.
C16_GrowsNeverShrinks ==
  \A url \in PageUrls, p1, p2 \in Pages, a1, a2 \in ApiResponses,
     ok1, ok2 \in BOOLEAN, keys \in KeyOrders(storage) :
    LET r1 == addPageToCache(storage, url, p1, DefaultPerPage, a1, now, rnd,
                             ok1, ok2, keys)
        r2 == AddStored(r1.storage, r1.rnd, url, p2, a2)
    IN MapKeys(r1.cache.blocks) \subseteq MapKeys(r2.cache.blocks)

\* C17 (as claimed): classifyUrl gives channel for a channel key; else other
\* for a key that is no well-formed URL; else, with a leading "www." set
\* aside on both sides, exact when the key's host is the term's host and its
\* path is empty, subpath when the host is the term's host, subdomain when
\* the host is a strict subdomain of the term's host, and other otherwise.
ClaimedCategory(key, term) ==
  IF key.kind = "channel" THEN "channel"
  ELSE IF key.kind # "url" THEN "other"
  ELSE IF \E i \in 1..Len(key.host) : key.host[i] \in InvalidLabels THEN "other"
  ELSE IF key.host = term.host /\ key.path = <<>> THEN "exact"
  ELSE IF key.host = term.host THEN "subpath"
  ELSE IF IsDotSuffix(term.host, key.host) THEN "subdomain"
  ELSE "other"
C17_ClassifyUrl ==
  last.op = "classifyUrl" =>
    last.result = ClaimedCategory(last.sourceKey, last.searchTerm)

\* C18: sortGroupedResults returns the input groups, each once and with its
\* results, ordered ascending by category priority (exact 0, subpath 1,
\* channel 2, subdomain 3, other 4) and, within a category, by the comparison
\* of the keys; every order of the same groups gives the same output.
ClaimedPriority(key, term) ==
  LET category == classifyUrl(key, term)
  IN CASE category = "exact" -> 0
       [] category = "subpath" -> 1
       [] category = "channel" -> 2
       [] category = "subdomain" -> 3
       [] category = "other" -> 4
Entries(seq) == { [results |-> seq[i].results, key |-> seq[i].key] : i \in 1..Len(seq) }
C18_SortGroupedResults ==
  last.op = "sortGroupedResults" =>
    LET out == last.result
        term == last.searchTerm
    IN /\ Len(out) = Len(last.groups)
       /\ Entries(out) = Entries(last.groups)
       /\ \A i \in 1..Len(out) : out[i].category = classifyUrl(out[i].key, term)
       /\ \A i, j \in 1..Len(out) :
            i < j =>
              \/ ClaimedPriority(out[i].key, term) < ClaimedPriority(out[j].key, term)
              \/ /\ ClaimedPriority(out[i].key, term) = ClaimedPriority(out[j].key, term)
                 /\ localeCompare(out[i].key, out[j].key) < 0
       /\ \A other \in GroupLists :
            Entries(other) = Entries(last.groups) =>
              sortGroupedResults(other, term) = out

\* C18 witness: three groups given out of order, two of them channels
C18_Witness ==
  /\ last.op = "sortGroupedResults"
  /\ Len(last.groups) = 3
  /\ last.groups[1].key = Bare(<<"other", "com">>, <<>>)
  /\ last.groups[2].key = ChannelKey("chan")
  /\ last.groups[3].key = ChannelKey("42")
  /\ last.result[1].key = ChannelKey("42")
  /\ last.result[2].key = ChannelKey("chan")


\* two URL strings that differ in their query string and in nothing else
DifferOnlyInQuery(a, b) ==
  /\ a.kind = "url"
  /\ b.kind = "url"
  /\ a.query # b.query
  /\ [a EXCEPT !.query = ""] = [b EXCEPT !.query = ""]

\* the result is in a group
Displayed(groups, result) ==
  \E g \in 1..Len(groups) : \E j \in 1..Len(groups[g].results) :
    groups[g].results[j] = result

\* both results are in one group
SameGroup(groups, a, b) ==
  \E g \in 1..Len(groups) :
    /\ \E j \in 1..Len(groups[g].results) : groups[g].results[j] = a
    /\ \E j \in 1..Len(groups[g].results) : groups[g].results[j] = b

\* C19: groupResultsByUrl puts two non-channel items whose source URLs differ
\* only in their query string into two distinct groups.
C19_QueryInGroupKey ==
  last.op = "groupResultsByUrl" =>
    \A i, j \in 1..Len(last.results) :
      LET a == last.results[i]
          b == last.results[j]
      IN (/\ a.typename # "Channel"
          /\ b.typename # "Channel"
          /\ DifferOnlyInQuery(SourceOf(a), SourceOf(b)))
         => ~SameGroup(last.result, a, b)

RECURSIVE TotalShown(_)
TotalShown(groups) ==
  IF groups = <<>> THEN 0 ELSE Len(Head(groups).results) + TotalShown(Tail(groups))

\* the result is a channel or names a source URL
NamesSource(result) ==
  \/ result.typename = "Channel"
  \/ result.source_url # EmptyString
  \/ result.source # EmptyString

DistinctIdentities(results) ==
  \A i, j \in 1..Len(results) :
    i # j => BlockIdOf(results[i], RandomString(i)) # BlockIdOf(results[j], RandomString(j))

C22_RateLimitExactly ==
  [][\A i \in 1..Len(inflight), message \in FetchErrors :
       FetchFail(i, message) =>
         /\ dom'.error \in {"Rate limited!", "Error"}
         /\ dom'.error = "Rate limited!" <=>
              \/ Len(message) >= 2 /\ message[1] = "Arena API error: " /\ message[2] = "429"
              \/ includes(message, "rate limit")]_vars


\* the key C23 states for a source URL that parses: the host as the URL object
\* holds it less a leading "www.", and the path less its trailing slash
ClaimedGroupKey(url) ==
  LET urlObj == NewUrl(url)
  IN Bare(urlObj.host, urlObj.path)

\* C23: the group key of a result whose source URL parses is the URL's hostname
\* without a leading "www." followed by its path without a trailing slash; a
\* hostname that does not begin with "www." is kept as it is.
C23_NormalizeStripsWwwAndSlash ==
  last.op = "groupResultsByUrl" =>
    \A i \in 1..Len(last.results) :
      LET result == last.results[i]
          url == SourceOf(result)
      IN (/\ result.typename # "Channel"
          /\ url # EmptyString
          /\ ~NewUrlThrows(url))
         => \E g \in 1..Len(last.result) :
              /\ last.result[g].key = ClaimedGroupKey(url)
              /\ \E j \in 1..Len(last.result[g].results) :
                   last.result[g].results[j] = result


\* C24: clearSearchCache(url) removes the stored entry of the term, so that
\* getSearchCache and getCachedBlocks for the term then find nothing, and it
\* leaves the value under every other key as it was.
C24_ClearDeletesOnlyThatEntry ==
  \A url \in SearchUrls :
    LET st == clearSearchCache(storage, url)
    IN /\ st[CacheKey(url)] = Absent
       /\ getSearchCache(st, url) = Null
       /\ getCachedBlocks(st, url) = {}
       /\ \A k \in DOMAIN storage : k # CacheKey(url) => st[k] = storage[k]

\* the entries of two terms are stored and readable; clearing the first, typed
\* with "www." and a trailing slash, removes its entry and keeps the other
C24_Witness ==
  /\ getSearchCache(storage, UrlWwwA) # Null
  /\ storage[CacheKey(UrlB)].kind = "stored"
  /\ LET st == clearSearchCache(storage, UrlWwwA)
     IN /\ getSearchCache(st, UrlWwwA) = Null
        /\ st[CacheKey(UrlA)] = Absent
        /\ st[CacheKey(UrlB)] = storage[CacheKey(UrlB)]


\* the load-more fetches that are outstanding
LoadMoreFetches == { i \in 1..Len(inflight) : inflight[i].loadMore }

\* C25: at most one load-more fetch is outstanding; isLoadingMore is true
\* exactly while one is, and the load-more button is disabled exactly then, so
\* a load-more fetch that resolves or fails leaves the flag false and the
\* button enabled.
C25_OneLoadMore ==
  /\ Cardinality(LoadMoreFetches) <= 1
  /\ isLoadingMore <=> LoadMoreFetches # {}
  /\ dom.loadMoreDisabled <=> isLoadingMore

\* a load-more fetch has resolved: page 2 is in the cache, nothing is
\* outstanding, the flag is false and the button is enabled
C25_Witness ==
  /\ currentSearchCache # Null
  /\ currentSearchCache.lastPage = 2
  /\ inflight = <<>>
  /\ ~isLoadingMore
  /\ ~dom.loadMoreDisabled



\* C26: after an addPageToCache whose write succeeds, getSearchCache for the
\* URL returns a cache equal to the one addPageToCache returned (url,
\* totalFromAPI, lastPage, perPage, timestamp, and the blocks under the same
\* ids), and getCachedBlocks returns the raw payloads of exactly those blocks.
C26_PersistenceRoundTrip ==
  \A url \in PageUrls, page \in Pages, apiResponse \in ApiResponses :
    LET r == AddStored(storage, rnd, url, page, apiResponse)
        cache == getSearchCache(r.storage, url)
    IN /\ cache # Null
       /\ cache.url = r.cache.url
       /\ cache.totalFromAPI = r.cache.totalFromAPI
       /\ cache.lastPage = r.cache.lastPage
       /\ cache.perPage = r.cache.perPage
       /\ cache.timestamp = r.cache.timestamp
       /\ MapKeys(cache.blocks) = MapKeys(r.cache.blocks)
       /\ \A id \in MapKeys(cache.blocks) : cache.blocks[id] = r.cache.blocks[id]
       /\ getCachedBlocks(r.storage, url) =
            { r.cache.blocks[id].raw : id \in MapKeys(r.cache.blocks) }
       /\ getSearchCache(r.storage, NormalizeSearchUrl(url)) = cache

\* an addPageToCache stored page 2 on top of page 1: the entry read back holds
\* three blocks and getCachedBlocks returns their three payloads
C26_Witness ==
  /\ last.op = "addPage"
  /\ last.ok1
  /\ last.page = 2
  /\ LET cache == getSearchCache(storage, last.url)
     IN /\ cache # Null
        /\ cache.lastPage = 2
        /\ cache.timestamp = now
        /\ MapSize(cache.blocks) = 3
        /\ Cardinality(getCachedBlocks(storage, last.url)) = 3


\* localStorage holding, beside the search caches, a saved auth token and an
\* entry in the old cache format, and the orders of its keys
WithSettings(st) ==
  [k \in DOMAIN st \cup {AuthTokenKey, OldFormatKey} |->
     IF k = AuthTokenKey THEN [kind |-> "setting"]
     ELSE IF k = OldFormatKey THEN Garbage
     ELSE st[k]]
SettingsOrders(st) ==
  UNION { { <<AuthTokenKey>> \o keys \o <<OldFormatKey>>,
            <<OldFormatKey>> \o keys \o <<AuthTokenKey>> } : keys \in KeyOrders(st) }

\* C27: addPageToCache (with the eviction a failed write starts),
\* pruneOldestCaches and migrateOldCache leave the auth-token setting as it is;
\* eviction removes only keys with the cache prefix, and migration removes
\* only keys of the old format, never an entry of the current one.
C27_OnlyCacheEntriesDeleted ==
  \A keys \in SettingsOrders(storage) :
    LET st == WithSettings(storage)
        pruned == pruneOldestCaches(st, keys)
        migrated == migrateOldCache(st, keys)
    IN /\ \A k \in DOMAIN st : ~IsCacheKey(k) => pruned[k] = st[k]
       /\ \A k \in DOMAIN st : k # OldFormatKey => migrated[k] = st[k]
       /\ migrated[OldFormatKey] = Absent
       /\ \A url \in PageUrls, page \in Pages, apiResponse \in ApiResponses :
            /\ keys[1] = AuthTokenKey =>
                 \A ok2 \in BOOLEAN :
                   LET added == addPageToCache(st, url, page, DefaultPerPage, apiResponse,
                                               now, rnd, FALSE, ok2, keys).storage
                   IN \A k \in DOMAIN st : ~IsCacheKey(k) => added[k] = st[k]
            /\ keys = <<AuthTokenKey>> \o AnyKeyOrder(storage) \o <<OldFormatKey>> =>
                 LET added == addPageToCache(st, url, page, DefaultPerPage, apiResponse,
                                             now, rnd, TRUE, TRUE, keys).storage
                 IN \A k \in DOMAIN st : ~IsCacheKey(k) => added[k] = st[k]

\* two caches are stored beside the settings: the eviction removes one of
\* them and the migration the old-format entry, and the auth token stays
C27_Witness ==
  /\ Cardinality(StoredCaches(storage)) >= 2
  /\ \E keys \in SettingsOrders(storage) :
       LET st == WithSettings(storage)
           pruned == pruneOldestCaches(st, keys)
       IN /\ \E k \in StoredCaches(storage) : pruned[k] = Absent
          /\ pruned[AuthTokenKey] = [kind |-> "setting"]
          /\ migrateOldCache(st, keys)[OldFormatKey] = Absent
          /\ migrateOldCache(st, keys)[AuthTokenKey] = [kind |-> "setting"]


\* the spellings of a.com: with or without "www.", in either letter case,
\* with or without one trailing slash
Spellings ==
  { MkUrl(w, h, n) : w \in {"", "www.", "WWW."}, h \in {"a.com", "A.com"}, n \in {0, 1} }

\* the spellings addPageToCache is called with
AddedSpellings == { MkUrl("WWW.", "A.com", 1), MkUrl("www.", "a.com", 0) }

\* C28: every spelling of a term has the cache key of the term; getSearchCache,
\* addPageToCache and clearSearchCache called with a spelling do what they do
\* when called with the term, and after an addPageToCache with a spelling the
\* one stored record of the term is the one under that key.
C28_OneRecordPerNormalizedUrl ==
  /\ \A url \in Spellings :
       /\ CacheKey(url) = CacheKey(UrlA)
       /\ getSearchCache(storage, url) = getSearchCache(storage, UrlA)
       /\ clearSearchCache(storage, url) = clearSearchCache(storage, UrlA)
  /\ \A page \in Pages, apiResponse \in ApiResponses :
       LET r == AddStored(storage, rnd, UrlA, page, apiResponse)
       IN /\ r.cache.url = NormalizeSearchUrl(UrlA)
          /\ \A k \in DOMAIN storage : k # CacheKey(UrlA) => r.storage[k] = storage[k]
          /\ \A url \in AddedSpellings :
               AddStored(storage, rnd, url, page, apiResponse) = r

\* pages were added for WWW.A.com/: the record is stored under the key of
\* a.com and is read back under every spelling
C28_Witness ==
  /\ last.op = "addPage"
  /\ last.url = UrlWwwA
  /\ last.ok1
  /\ storage[CacheKey(UrlA)].kind = "stored"
  /\ storage[CacheKey(UrlA)].timestamp = now
  /\ \A url \in Spellings : getSearchCache(storage, url) # Null


\* C29: the ids in the cache after page 1 and page 2 of a URL have been added
\* are the same whether page 1 or page 2 is added first. The two orders are two
\* runs of the program, so the second draws from Math.random() what the first
\* did not draw.
C29_IdSetOrderIndependent ==
  \A url \in PageUrls, a1, a2 \in ApiResponses :
    LET x1 == AddStored(storage, rnd, url, 1, a1)
        x2 == AddStored(x1.storage, x1.rnd, url, 2, a2)
        y1 == AddStored(storage, x2.rnd, url, 2, a2)
        y2 == AddStored(y1.storage, y1.rnd, url, 1, a1)
    IN MapKeys(x2.cache.blocks) = MapKeys(y2.cache.blocks)


\* the highest page the stored record of a term holds, 0 without a record
StoredLastPage(st, url) ==
  LET cache == getSearchCache(st, url)
  IN IF cache = Null THEN 0 ELSE cache.lastPage

\* the values lastPage can be said to have for a term: that of its stored
\* record, and that of the cache object the page holds when it is the term's
LastPagesOf(st, held, url) ==
  {StoredLastPage(st, url)} \cup
  (IF held # Null /\ held.url = NormalizeSearchUrl(url) THEN {held.lastPage} ELSE {})

\* C30: a click on the load-more button that dispatches a fetch dispatches it
\* for the active term and for the page after the term's lastPage, and when
\* that fetch resolves and the page is stored the term's lastPage is one
\* higher than it was.
C30_LoadMoreProgress ==
  [][/\ (LoadMoreClick /\ Len(inflight') > Len(inflight)) =>
          LET f == inflight'[Len(inflight')]
          IN /\ f.url = currentSearchUrl'
             /\ \E l \in LastPagesOf(storage, currentSearchCache', f.url) :
                  f.page = l + 1
     /\ \A i \in 1..Len(inflight) :
          (inflight[i].loadMore /\
           \E apiResponse \in PageResponses :
              FetchResolve(i, apiResponse, TRUE, TRUE, AnyKeyOrder(storage))) =>
            \E l \in LastPagesOf(storage, currentSearchCache, inflight[i].url) :
               currentSearchCache'.lastPage = l + 1]_vars

====
